---------------------------- MODULE Spec2Model ----------------------------
(***************************************************************************)
(* A model of the `dollars` crate (src/src/lib.rs): the value type         *)
(* Dollars { cent_value: i64 }, its accessors, its operators, its          *)
(* Display/Debug rendering and its FromStr parser.                         *)
(*                                                                         *)
(* Integer width.  TLC's integers are 32 bits wide, so the crate's i64 is  *)
(* modelled as a two's-complement integer of IntBits bits.  Every          *)
(* operation keeps the code's structure (truncating / and %, abs,          *)
(* checked_add, checked_mul, plain + and -), with I64Min = -2^(IntBits-1)  *)
(* and I64Max = 2^(IntBits-1) - 1 in the place of i64::MIN and i64::MAX.   *)
(*                                                                         *)
(* Build profile.  Plain +, - and unary - on i64 panic on overflow when    *)
(* the crate is built with overflow checks (the default dev profile) and   *)
(* wrap when it is built without (the default release profile).  The       *)
(* variable overflow_checks is the profile of the build under test.        *)
(*                                                                         *)
(* Strings.  A character is a one-element token ("0", "$", ...); the token *)
(* NonAsciiChar stands for any character outside ASCII.  An input string   *)
(* is a sequence of runs [c |-> character, n |-> repetitions], so that     *)
(* the very long digit runs that overflow the parser's accumulator can be  *)
(* written down; a run of n = 1 is a single character.                     *)
(***************************************************************************)
EXTENDS Integers, Sequences, FiniteSets, TLC

\* ------------------------------------------------------------- bounds
\* Width in bits of the modelled cent_value (the crate's is 64).
IntBits == 16
\* Longest input string handed to from_str, in runs.
MaxLen == 4
\* Longest suffix appended to an accepted input, in runs.
MaxTail == 2
\* Operands of the operators lie within MaxOperand of 0, I64Min or I64Max.
MaxOperand == 3
\* Values rendered and inspected lie in -MaxCents..MaxCents or within
\* MaxOperand of I64Min or I64Max.
MaxCents == 1200

\* ------------------------------------------------------------- integers
I64Max == 2^(IntBits - 1) - 1
I64Min == -(2^(IntBits - 1))

InI64(x) == I64Min <= x /\ x <= I64Max

\* Reduction of an exact result modulo 2^IntBits into the signed range.
Wrap(x) == ((x - I64Min) % 2^IntBits) + I64Min

MathAbs(x) == IF x < 0 THEN -x ELSE x

\* i64 `/`: integer division truncating toward zero (divisor > 0 here).
TruncDiv(a, b) == IF a < 0 THEN -((-a) \div b) ELSE a \div b

\* i64 `%`: remainder with the sign of the dividend.
TruncRem(a, b) == a - b * TruncDiv(a, b)

\* The outcome of an operation on i64 that can overflow.
Value(x) == [panic |-> FALSE, v |-> x]
Panic == [panic |-> TRUE, v |-> 0]

\* An exact result x of a plain (unchecked) i64 operation.
Unchecked(x, checks) ==
    IF InI64(x) THEN Value(x)
    ELSE IF checks THEN Panic
    ELSE Value(Wrap(x))

\* i64::abs: overflows on i64::MIN only.
I64Abs(x, checks) == Unchecked(MathAbs(x), checks)

\* Option<i64> of the checked operations.
Some(x) == [some |-> TRUE, v |-> x]
None == [some |-> FALSE, v |-> 0]

\* checked_add with the check left out: a wrapping addition.
CheckedAddWrapping(a, b) == Some(Wrap(a + b))

checked_add(a, b) == IF InI64(a + b) THEN Some(a + b) ELSE None

checked_mul(a, b) == IF InI64(a * b) THEN Some(a * b) ELSE None

\* ------------------------------------------------------------- accessors
\* dollars() taking the absolute value before dividing.
DollarsAbsFirst(self, checks) ==
    LET a == I64Abs(self, checks)
    IN  IF a.panic THEN Panic ELSE Value(TruncDiv(a.v, 100))

\* Dollars::dollars
dollars(self, checks) == I64Abs(TruncDiv(self, 100), checks)

\* Dollars::cents
cents(self, checks) == I64Abs(TruncRem(self, 100), checks)

\* Dollars::in_cents
in_cents(self) == self

\* Dollars::is_positive
is_positive(self) == in_cents(self) > 0

\* ------------------------------------------------------------- operators
\* impl Add for Dollars
add(self, other, checks) == Unchecked(in_cents(self) + in_cents(other), checks)

\* impl Sub for Dollars
sub(self, other, checks) == Unchecked(in_cents(self) - in_cents(other), checks)

\* impl Neg for Dollars
neg(self, checks) == Unchecked(-self, checks)

\* ------------------------------------------------------------- characters
DigitChars == <<"0", "1", "2", "3", "4", "5", "6", "7", "8", "9">>

\* Any character outside ASCII.
NonAsciiChar == "U+00E9"

\* The absence of a character (Option<char>::None).
NoChar == ""

\* char::to_digit(10)
to_digit(c) ==
    IF \E i \in 1..10 : DigitChars[i] = c
    THEN Some((CHOOSE i \in 1..10 : DigitChars[i] = c) - 1)
    ELSE None

\* ------------------------------------------------------------- rendering
\* The decimal digits of n >= 0, most significant first, no leading zeros.
RECURSIVE Digits(_)
Digits(n) ==
    IF n < 10 THEN <<DigitChars[n + 1]>>
    ELSE Digits(n \div 10) \o <<DigitChars[(n % 10) + 1]>>

\* "{}" applied to an i64.
FormatI64(n) == IF n < 0 THEN <<"-">> \o Digits(-n) ELSE Digits(n)

\* "{:02}" with the width left out.
FormatI64Unpadded(n) == FormatI64(n)

\* "{:02}" applied to an i64: zero-padded to a width of two.
FormatI64Width2(n) ==
    LET d == FormatI64(n)
    IN  IF Len(d) < 2 THEN <<"0">> \o d ELSE d

\* The outcome of a rendering.
Rendered(str) == [panic |-> FALSE, str |-> str]
RenderPanic == [panic |-> TRUE, str |-> <<>>]

\* impl Display for Dollars: format!("{}${}.{:02}", sign, dollars, cents)
fmt(self, checks) ==
    LET d == dollars(self, checks)
        c == cents(self, checks)
    IN  IF d.panic \/ c.panic THEN RenderPanic
        ELSE Rendered((IF in_cents(self) < 0 THEN <<"-">> ELSE <<>>)
                      \o <<"$">> \o FormatI64(d.v)
                      \o <<".">> \o FormatI64Width2(c.v))

\* impl Debug for Dollars: write!(f, "{}", self)
debug_fmt(self, checks) == fmt(self, checks)

\* ------------------------------------------------------------- strings
Run(c, n) == [c |-> c, n |-> n]

\* The string whose characters are the elements of chars.
Str(chars) == [i \in 1..Len(chars) |-> Run(chars[i], 1)]

RECURSIVE StrLen(_)
StrLen(s) == IF s = <<>> THEN 0 ELSE s[1].n + StrLen(Tail(s))

\* str::is_ascii
is_ascii(s) == \A i \in 1..Len(s) : s[i].c # NonAsciiChar

\* Peekable<Chars>::peek
peek(chars) == IF chars = <<>> THEN NoChar ELSE chars[1].c

\* Iterator::next: the iterator after one character is taken.
advance(chars) ==
    IF chars = <<>> THEN chars
    ELSE IF chars[1].n > 1 THEN <<Run(chars[1].c, chars[1].n - 1)>> \o Tail(chars)
    ELSE Tail(chars)

\* ------------------------------------------------------------- parser
Ok(x) == [ok |-> TRUE, cent_value |-> x, err |-> "", ch |-> NoChar]
Err(kind, c) == [ok |-> FALSE, cent_value |-> 0, err |-> kind, ch |-> c]

NonAscii == "NonAscii"
InvalidDigit == "InvalidDigit"
Overflow == "Overflow"
BadCentsLength == "BadCentsLength"
ExtraDecimalPoint == "ExtraDecimalPoint"

\* The state of the digit fold: the accumulator, the characters left in the
\* iterator, and the error that ended it (if any).
FoldOk(acc, chars) == [ok |-> TRUE, acc |-> acc, chars |-> chars, err |-> "", ch |-> NoChar]
FoldErr(kind, c) == [ok |-> FALSE, acc |-> 0, chars |-> <<>>, err |-> kind, ch |-> c]

\* chars.by_ref().take_while(|&c| c != '.').try_fold(acc, ...): take_while
\* takes the first '.' out of the iterator and drops it; a run of n equal
\* digits d is folded in one step: the n checked additions of d, the sums
\* growing, fail at some point exactly when acc + n * d is out of range.
RECURSIVE try_fold(_, _)
try_fold(acc, chars) ==
    IF chars = <<>> THEN FoldOk(acc, chars)
    ELSE IF peek(chars) = "." THEN FoldOk(acc, advance(chars))
    ELSE LET c == chars[1].c
             d == to_digit(c)
         IN  IF ~d.some THEN FoldErr(InvalidDigit, c)
             ELSE LET sum == checked_add(acc, chars[1].n * d.v)
                  IN  IF ~sum.some THEN FoldErr(Overflow, NoChar)
                      ELSE try_fold(sum.v, Tail(chars))

\* cents_of with the length test made before the test for a second '.'.
CentsOfLengthFirst(chars) ==
    LET c1 == peek(chars)
        c2 == peek(advance(chars))
    IN  IF c1 # NoChar /\ c2 = NoChar THEN Err(BadCentsLength, NoChar)
        ELSE IF c1 = "." \/ c2 = "." THEN Err(ExtraDecimalPoint, NoChar)
        ELSE IF c1 = NoChar THEN Ok(0)
        ELSE LET d1 == to_digit(c1)
                 d2 == to_digit(c2)
             IN  IF ~d1.some THEN Err(InvalidDigit, c1)
                 ELSE IF ~d2.some THEN Err(InvalidDigit, c1)
                 ELSE Ok(d1.v * 10 + d2.v)

\* cents_of refusing anything that follows the two cents digits.
CentsOfStrict(chars) ==
    LET c1 == peek(chars)
        c2 == peek(advance(chars))
        c3 == peek(advance(advance(chars)))
    IN  IF c1 = "." \/ c2 = "." THEN Err(ExtraDecimalPoint, NoChar)
        ELSE IF c1 # NoChar /\ c2 = NoChar THEN Err(BadCentsLength, NoChar)
        ELSE IF c1 = NoChar THEN Ok(0)
        ELSE IF c3 # NoChar THEN Err(BadCentsLength, NoChar)
        ELSE LET d1 == to_digit(c1)
                 d2 == to_digit(c2)
             IN  IF ~d1.some THEN Err(InvalidDigit, c1)
                 ELSE IF ~d2.some THEN Err(InvalidDigit, c1)
                 ELSE Ok(d1.v * 10 + d2.v)

\* match (chars.next(), chars.next()) { ... }: the cents, or the error.
cents_of(chars) ==
    LET c1 == peek(chars)
        c2 == peek(advance(chars))
    IN  IF c1 = "." \/ c2 = "." THEN Err(ExtraDecimalPoint, NoChar)
        ELSE IF c1 # NoChar /\ c2 = NoChar THEN Err(BadCentsLength, NoChar)
        ELSE IF c1 = NoChar THEN Ok(0)
        ELSE LET d1 == to_digit(c1)
                 d2 == to_digit(c2)
             IN  IF ~d1.some THEN Err(InvalidDigit, c1)
                 ELSE IF ~d2.some THEN Err(InvalidDigit, c1)
                 ELSE Ok(d1.v * 10 + d2.v)

\* dollars.checked_mul(100).and_then(|d| d.checked_add(cents))
\*        .and_then(|d| d.checked_mul(sign)).map(Self::from).ok_or(Overflow)
compose(dollar_sum, cent_part, sign) ==
    LET m == checked_mul(dollar_sum, 100)
        a == IF m.some THEN checked_add(m.v, cent_part) ELSE None
        r == IF a.some THEN checked_mul(a.v, sign) ELSE None
    IN  IF r.some THEN Ok(r.v) ELSE Err(Overflow, NoChar)

\* impl FromStr for Dollars
from_str(s) ==
    IF ~is_ascii(s) THEN Err(NonAscii, NoChar)
    ELSE LET c0 == peek(s)
             sign == IF c0 = "-" THEN -1 ELSE 1
             signed == IF c0 = "-" \/ c0 = "+" THEN advance(s) ELSE s
             body == IF peek(signed) = "$" THEN advance(signed) ELSE signed
             fold == try_fold(0, body)
         IN  IF ~fold.ok THEN Err(fold.err, fold.ch)
             ELSE LET c == cents_of(fold.chars)
                  IN  IF ~c.ok THEN c
                      ELSE compose(fold.acc, c.cent_value, sign)

\* ------------------------------------------------------------- inputs
\* The longest string there can be: isize::MAX bytes.
MaxStrLen == I64Max

\* The characters input strings are written with.
InputChars == {"0", "1", "9", "-", "+", "$", ".", "x", NonAsciiChar}

\* The runs input strings are made of: single characters, a run of '1'
\* whose digit sum is the largest that times 100 stays in range, and a run
\* of '9' whose digit sum is the largest multiple of 9 in range.
InputRuns ==
    {Run(c, 1) : c \in InputChars}
        \cup {Run("1", I64Max \div 100), Run("9", I64Max \div 9)}

StringsUpTo(k) == UNION {[1..n -> InputRuns] : n \in 0..k}

Inputs == {x \in StringsUpTo(MaxLen) : StrLen(x) <= MaxStrLen}

\* The operands of the operators.
Operands ==
    (-MaxOperand..MaxOperand)
        \cup (I64Min..(I64Min + MaxOperand))
        \cup ((I64Max - MaxOperand)..I64Max)

\* The values rendered and inspected.
Amounts == (-MaxCents..MaxCents) \cup Operands

\* ------------------------------------------------------------- state
VARIABLES
    overflow_checks,  \* whether the build panics on i64 overflow
    op,               \* the call made ("start": none yet)
    self,             \* the receiver's cent_value
    other,            \* the other operand's cent_value
    ret,              \* the outcome of add, sub or neg
    got,              \* the outcomes of the accessors
    text,             \* the outcome of Display
    dbg,              \* the outcome of Debug
    s,                \* the string handed to from_str
    parsed            \* the Result of from_str

vars == <<overflow_checks, op, self, other, ret, got, text, dbg, s, parsed>>

NoAccessors ==
    [dollars |-> Value(0), cents |-> Value(0), in_cents |-> 0, is_positive |-> FALSE]

Init ==
    /\ overflow_checks \in BOOLEAN
    /\ op = "start"
    /\ self = 0
    /\ other = 0
    /\ ret = Value(0)
    /\ got = NoAccessors
    /\ text = Rendered(<<>>)
    /\ dbg = Rendered(<<>>)
    /\ s = <<>>
    /\ parsed = Ok(0)

\* a + b
CallAdd ==
    /\ op = "start"
    /\ \E a, b \in Operands :
        /\ op' = "add"
        /\ self' = a
        /\ other' = b
        /\ ret' = add(a, b, overflow_checks)
    /\ UNCHANGED <<overflow_checks, got, text, dbg, s, parsed>>

\* a - b
CallSub ==
    /\ op = "start"
    /\ \E a, b \in Operands :
        /\ op' = "sub"
        /\ self' = a
        /\ other' = b
        /\ ret' = sub(a, b, overflow_checks)
    /\ UNCHANGED <<overflow_checks, got, text, dbg, s, parsed>>

\* -a
CallNeg ==
    /\ op = "start"
    /\ \E a \in Operands :
        /\ op' = "neg"
        /\ self' = a
        /\ ret' = neg(a, overflow_checks)
    /\ UNCHANGED <<overflow_checks, other, got, text, dbg, s, parsed>>

\* a.dollars(), a.cents(), a.in_cents(), a.is_positive()
CallAccessors ==
    /\ op = "start"
    /\ \E a \in Amounts :
        /\ op' = "accessors"
        /\ self' = a
        /\ got' = [dollars |-> dollars(a, overflow_checks),
                   cents |-> cents(a, overflow_checks),
                   in_cents |-> in_cents(a),
                   is_positive |-> is_positive(a)]
    /\ UNCHANGED <<overflow_checks, other, ret, text, dbg, s, parsed>>

\* format!("{}", a) and format!("{:?}", a)
CallFmt ==
    /\ op = "start"
    /\ \E a \in Amounts :
        /\ op' = "fmt"
        /\ self' = a
        /\ text' = fmt(a, overflow_checks)
        /\ dbg' = debug_fmt(a, overflow_checks)
    /\ UNCHANGED <<overflow_checks, other, ret, got, s, parsed>>

\* input.parse::<Dollars>()
CallFromStr ==
    /\ op = "start"
    /\ \E input \in Inputs :
        /\ op' = "from_str"
        /\ s' = input
        /\ parsed' = from_str(input)
    /\ UNCHANGED <<overflow_checks, self, other, ret, got, text, dbg>>

\* a.to_string().parse::<Dollars>()
CallRoundTrip ==
    /\ op = "start"
    /\ \E a \in Amounts :
        /\ op' = "round_trip"
        /\ self' = a
        /\ text' = fmt(a, overflow_checks)
        /\ ~text'.panic
        /\ s' = Str(text'.str)
        /\ parsed' = from_str(s')
    /\ UNCHANGED <<overflow_checks, other, ret, got, dbg>>

\* Each call is made on a fresh value: once it has returned nothing follows.
Next ==
    \/ CallAdd
    \/ CallSub
    \/ CallNeg
    \/ CallAccessors
    \/ CallFmt
    \/ CallFromStr
    \/ CallRoundTrip

Spec == Init /\ [][Next]_vars

\* ------------------------------------------------------------- properties
IsDigitChar(c) == c \in {"0", "1", "2", "3", "4", "5", "6", "7", "8", "9"}

DigitValue(c) == CHOOSE d \in 0..9 : DigitChars[d + 1] = c

\* The number a sequence of digit characters writes in decimal.
RECURSIVE DecimalValue(_)
DecimalValue(ds) ==
    IF ds = <<>> THEN 0
    ELSE 10 * DecimalValue(SubSeq(ds, 1, Len(ds) - 1)) + DigitValue(ds[Len(ds)])

AllDigits(ds) == \A i \in 1..Len(ds) : IsDigitChar(ds[i])

\* C9: for every cent total v, i64::MIN and i64::MAX included, dollars()
\* and cents() return without overflow or panic, dollars() >= 0,
\* 0 <= cents() <= 99, and 100 * dollars() + cents() is the mathematical
\* absolute value of v; in_cents() is v itself.
C9_Magnitude ==
    op = "accessors" =>
        /\ ~got.dollars.panic
        /\ ~got.cents.panic
        /\ got.dollars.v >= 0
        /\ got.cents.v >= 0
        /\ got.cents.v <= 99
        /\ 100 * got.dollars.v + got.cents.v = MathAbs(self)
        /\ got.in_cents = self

C9_Witness ==
    /\ op = "accessors"
    /\ self = I64Min
    /\ 100 * got.dollars.v + got.cents.v = -I64Min

\* C8: the Display string of v is a '-' exactly when v < 0, then '$', then
\* the decimal digits of dollars() with no leading zeros, then '.', then
\* cents() as exactly two digits; the Debug string is the same string.
C8_Display ==
    op = "fmt" =>
        /\ ~text.panic
        /\ dbg = text
        /\ LET str == text.str
               body == IF self < 0 THEN Tail(str) ELSE str
               n == Len(body)
               whole == SubSeq(body, 2, n - 3)
               frac == SubSeq(body, n - 1, n)
           IN  /\ (self < 0) <=> (str[1] = "-")
               /\ n >= 5
               /\ body[1] = "$"
               /\ body[n - 2] = "."
               /\ AllDigits(whole)
               /\ Len(whole) = 1 \/ whole[1] # "0"
               /\ DecimalValue(whole) = dollars(self, overflow_checks).v
               /\ AllDigits(frac)
               /\ DecimalValue(frac) = cents(self, overflow_checks).v

C8_Witness ==
    /\ op = "fmt"
    /\ self = -105
    /\ text.str = <<"-", "$", "1", ".", "0", "5">>
    /\ dbg.str = text.str

\* C7: add, subtract and negate never panic, and return the exact result
\* reduced modulo 2^w into the signed range.
C7_TotalWrapping ==
    /\ op = "add" => ~ret.panic /\ ret.v = Wrap(self + other)
    /\ op = "sub" => ~ret.panic /\ ret.v = Wrap(self - other)
    /\ op = "neg" => ~ret.panic /\ ret.v = Wrap(-self)

\* C1: parsing the Display string of v succeeds and gives back v.
C1_RoundTrip ==
    op = "round_trip" => parsed.ok /\ parsed.cent_value = self

\* ---- the parts of an input string, read off the string itself
IsAsciiString(x) == \A i \in 1..Len(x) : x[i].c # NonAsciiChar

\* Every run is a single character.
IsPlain(x) == \A i \in 1..Len(x) : x[i].n = 1

SignOf(x) == IF peek(x) = "-" THEN -1 ELSE 1

Unsigned(x) == IF peek(x) \in {"-", "+"} THEN advance(x) ELSE x

\* What follows the optional sign and the optional '$'.
Amount(x) == IF peek(Unsigned(x)) = "$" THEN advance(Unsigned(x)) ELSE Unsigned(x)

\* The index of the first run of '.', or Len(b) + 1 when there is none.
FirstDot(b) ==
    IF \E i \in 1..Len(b) : b[i].c = "."
    THEN CHOOSE i \in 1..Len(b) :
            b[i].c = "." /\ \A j \in 1..(i - 1) : b[j].c # "."
    ELSE Len(b) + 1

\* The dollar run: everything before the first '.'.
DollarRun(b) == SubSeq(b, 1, FirstDot(b) - 1)

\* Everything after the first '.'.
AfterDot(b) == advance(SubSeq(b, FirstDot(b), Len(b)))

\* The index of the first run of r that is not a digit, or 0.
FirstBad(r) ==
    IF \E i \in 1..Len(r) : ~IsDigitChar(r[i].c)
    THEN CHOOSE i \in 1..Len(r) :
            ~IsDigitChar(r[i].c) /\ \A j \in 1..(i - 1) : IsDigitChar(r[j].c)
    ELSE 0

\* The sum of the digits of the first k runs of r (all digits).
RECURSIVE DigitSum(_, _)
DigitSum(r, k) ==
    IF k = 0 THEN 0 ELSE DigitSum(r, k - 1) + r[k].n * DigitValue(r[k].c)

\* The two characters after the first '.' (NoChar where there is none).
Cents1(x) == peek(AfterDot(Amount(x)))
Cents2(x) == peek(advance(AfterDot(Amount(x))))

Failed(kind) == ~parsed.ok /\ parsed.err = kind

\* The cents part is well formed: absent, or two digits.
CentsValid(x) ==
    \/ Cents1(x) = NoChar
    \/ IsDigitChar(Cents1(x)) /\ IsDigitChar(Cents2(x))

CentsNumber(x) ==
    IF Cents1(x) = NoChar THEN 0
    ELSE 10 * DigitValue(Cents1(x)) + DigitValue(Cents2(x))

\* C5: the character carried by an invalid-digit error is the first
\* character at a digit position that is not a decimal digit: in the
\* dollar run, else the first cents character, else the second.
C5_OffendingChar ==
    (op = "from_str" /\ Failed(InvalidDigit)) =>
        LET r == DollarRun(Amount(s))
        IN  parsed.ch =
                IF FirstBad(r) # 0 THEN r[FirstBad(r)].c
                ELSE IF ~IsDigitChar(Cents1(s)) THEN Cents1(s)
                ELSE Cents2(s)

\* C3: from_str returns Ok only for ASCII strings that start with
\* sign? '$'? digit+ ('.' digit digit)?: at least one dollar digit, and a
\* '.' only when two digits follow it.
C3_OnlyGrammar ==
    (op = "from_str" /\ parsed.ok) =>
        LET b == Amount(s)
            r == DollarRun(b)
        IN  /\ IsAsciiString(s)
            /\ Len(r) >= 1
            /\ FirstBad(r) = 0
            /\ FirstDot(b) <= Len(b) =>
                    IsDigitChar(Cents1(s)) /\ IsDigitChar(Cents2(s))

\* The string is exactly sign? '$'? digit+ ('.' digit digit)?.
InGrammar(x) ==
    LET b == Amount(x)
        r == DollarRun(b)
    IN  /\ IsAsciiString(x)
        /\ Len(r) >= 1
        /\ FirstBad(r) = 0
        /\ \/ FirstDot(b) = Len(b) + 1
           \/ /\ StrLen(AfterDot(b)) = 2
              /\ IsDigitChar(Cents1(x))
              /\ IsDigitChar(Cents2(x))

\* The number the dollar run writes in decimal (a plain string).
DollarNumber(x) ==
    LET r == DollarRun(Amount(x))
    IN  DecimalValue([i \in 1..Len(r) |-> r[i].c])

\* C2: an input of the form sign? '$'? digit+ ('.' digit digit)? parses to
\* sign * (100 * N + CC), N the decimal number the dollar run writes and CC
\* the two-digit cents number (stated for the inputs written out character
\* by character whose value is in range).
C2_PlaceValue ==
    (/\ op = "from_str"
     /\ IsPlain(s)
     /\ InGrammar(s)
     /\ InI64(100 * DollarNumber(s) + CentsNumber(s))) =>
        /\ parsed.ok
        /\ parsed.cent_value = SignOf(s) * (100 * DollarNumber(s) + CentsNumber(s))

\* The first failing step is in the cents part, and its error.
CentsRules(x) ==
    /\ (Cents1(x) = "." \/ Cents2(x) = ".") => Failed(ExtraDecimalPoint)
    /\ (Cents1(x) \notin {NoChar, "."} /\ Cents2(x) = NoChar) => Failed(BadCentsLength)
    /\ (/\ Cents1(x) \notin {NoChar, "."}
        /\ Cents2(x) \notin {NoChar, "."}
        /\ ~(IsDigitChar(Cents1(x)) /\ IsDigitChar(Cents2(x)))) => Failed(InvalidDigit)

\* An Overflow of the final composition (the accumulated dollars being in
\* range) is reported only when no earlier step failed.
CompositionOverflowLast(x) ==
    LET r == DollarRun(Amount(x))
    IN  (/\ Failed(Overflow)
         /\ IsAsciiString(x)
         /\ FirstBad(r) = 0
         /\ InI64(DigitSum(r, Len(r)))) => CentsValid(x)

\* C4 as claimed: NonAscii for any non-ASCII character; otherwise
\* InvalidDigit for a non-digit in the dollar run; otherwise the cents
\* rules; Overflow of the composition only when nothing before it failed.
C4_ErrorOrder ==
    op = "from_str" =>
        LET r == DollarRun(Amount(s))
        IN  /\ ~IsAsciiString(s) => Failed(NonAscii)
            /\ (IsAsciiString(s) /\ FirstBad(r) # 0) => Failed(InvalidDigit)
            /\ (IsAsciiString(s) /\ FirstBad(r) = 0) => CentsRules(s)
            /\ CompositionOverflowLast(s)

\* C4 as amended: the dollar run is scanned left to right and its first
\* failure wins, so the digits in front of a non-digit give Overflow when
\* their sum leaves the i64 range and the non-digit gives InvalidDigit
\* when it does not; the cents rules apply once the whole run has been
\* accumulated in range.
C4_ErrorOrderAmended ==
    op = "from_str" =>
        LET r == DollarRun(Amount(s))
            bad == FirstBad(r)
        IN  /\ ~IsAsciiString(s) => Failed(NonAscii)
            /\ (IsAsciiString(s) /\ bad # 0 /\ InI64(DigitSum(r, bad - 1)))
                    => Failed(InvalidDigit)
            /\ (IsAsciiString(s) /\ bad # 0 /\ ~InI64(DigitSum(r, bad - 1)))
                    => Failed(Overflow)
            /\ (IsAsciiString(s) /\ bad = 0 /\ ~InI64(DigitSum(r, Len(r))))
                    => Failed(Overflow)
            /\ (IsAsciiString(s) /\ bad = 0 /\ InI64(DigitSum(r, Len(r))))
                    => CentsRules(s)
            /\ CompositionOverflowLast(s)

\* A non-digit in the dollar run behind digits that overflow the
\* accumulator: the parse fails with Overflow.
C4_Witness ==
    /\ op = "from_str"
    /\ IsAsciiString(s)
    /\ FirstBad(DollarRun(Amount(s))) > 1
    /\ ~InI64(DigitSum(DollarRun(Amount(s)), FirstBad(DollarRun(Amount(s))) - 1))
    /\ Failed(Overflow)

\* C6: from_str never returns a wrapped value.  When the accumulation of
\* the dollar digits, its product with 100, the sum with the cents or the
\* product with the sign leaves the i64 range, it fails with Overflow; on
\* success the cent total is exactly sign * (acc * 100 + cents), in range.
C6_OverflowChecked ==
    op = "from_str" =>
        LET r == DollarRun(Amount(s))
            acc == DigitSum(r, Len(r))
            exact == SignOf(s) * (acc * 100 + CentsNumber(s))
        IN  /\ parsed.ok =>
                /\ InI64(parsed.cent_value)
                /\ FirstBad(r) = 0
                /\ CentsValid(s)
                /\ parsed.cent_value = exact
            /\ (IsAsciiString(s) /\ FirstBad(r) = 0 /\ ~InI64(acc))
                    => Failed(Overflow)
            /\ (/\ IsAsciiString(s)
                /\ FirstBad(r) = 0
                /\ InI64(acc)
                /\ CentsValid(s)
                /\ \/ ~InI64(acc * 100)
                   \/ ~InI64(acc * 100 + CentsNumber(s))
                   \/ ~InI64(exact)) => Failed(Overflow)

\* The product with 100 is in range and the sum with the cents is not.
C6_Witness ==
    /\ op = "from_str"
    /\ IsAsciiString(s)
    /\ FirstBad(DollarRun(Amount(s))) = 0
    /\ CentsValid(s)
    /\ InI64(100 * DigitSum(DollarRun(Amount(s)), Len(DollarRun(Amount(s)))))
    /\ ~InI64(100 * DigitSum(DollarRun(Amount(s)), Len(DollarRun(Amount(s))))
                + CentsNumber(s))
    /\ Failed(Overflow)

\* The ASCII strings of at most MaxTail runs.
Tails == {x \in StringsUpTo(MaxTail) : IsAsciiString(x)}

\* The string ends in '.' and two digits.
EndsInCents(x) ==
    /\ Len(x) >= 3
    /\ x[Len(x) - 2] = Run(".", 1)
    /\ x[Len(x) - 1].n = 1 /\ IsDigitChar(x[Len(x) - 1].c)
    /\ x[Len(x)].n = 1 /\ IsDigitChar(x[Len(x)].c)

============================================================================
